---- MODULE Spec2Model ----
(***************************************************************************)
(* Token lifecycle (issue, revoke, refresh, prune), the authorization      *)
(* guards and the permission resolver of the adizell/async service.        *)
(*                                                                         *)
(* Time is counted in whole ticks of the wall clock in UTC.  python-jose   *)
(* compares exp with the clock truncated to whole seconds and rejects a    *)
(* token only when exp < now, so one tick stands for one step of that      *)
(* integer clock; the token lifetimes are configuration values             *)
(* (config.py:77-79) and are given in ticks.                               *)
(***************************************************************************)
EXTENDS Integers, FiniteSets, Sequences, TLC

\* ------------------------------------------------------------------------
\* Bounds of the model
\* ------------------------------------------------------------------------
MaxTime == 2
MaxTokens == 4
AccessTtl == 1
RefreshTtl == 2
ClientTtl == 3
MaxAttempts == 3
TzSkew == 1
MaxJti == 6

\* ------------------------------------------------------------------------
\* Universe
\* ------------------------------------------------------------------------
UserIds == {"u1", "u2"}
ClientIds == {"7"}
Emails == {"a@x", "b@x"}
Passwords == {"Pw1!", "Pw2!"}
Groups == {"user", "admin"}
Codenames == {"view_profile", "manage_groups"}

\* rows of the auth_group table: ids, and the names a request can carry
GroupIds == {1, 2, 3, 4}
GroupNames == {"admin", "user", "editors", "staff"}
\* the groups seeded at installation, by id
SystemGroupIds == {1, 2}
NoGroupRow == [exists |-> FALSE, name |-> ""]
InitAuthGroup ==
    [id \in GroupIds |->
        IF id = 1 THEN [exists |-> TRUE, name |-> "admin"]
        ELSE IF id = 2 THEN [exists |-> TRUE, name |-> "user"]
        ELSE NoGroupRow]

\* the task created by lifespan: pc is where periodic_cleanup stands
\* ("running": at the top of the loop, not suspended; "pruning": suspended at
\* an await inside cleanup_token_blacklist; "sleeping": suspended in
\* asyncio.sleep; "done": the loop has been left), cancel is set by
\* cleanup_task.cancel(), attempts counts the calls of cleanup_token_blacklist
\* and slept tells whether a sleep has ended since the last of them
InitCleanupTask == [pc |-> "running", cancel |-> FALSE, attempts |-> 0, slept |-> FALSE]

\* the database sessions that run update_user; an optional field of
\* UserUpdate is <<>> when it is None and <<v>> when it is v
SessionIds == {"s1", "s2"}
NoUpdate == [email |-> <<>>, is_active |-> <<>>, is_superuser |-> <<>>]
NoRow == [exists |-> FALSE, email |-> "", password |-> <<"bcrypt", "">>, is_active |-> TRUE,
          is_superuser |-> FALSE, groups |-> {}, permissions |-> {}]
InitSessions ==
    [s \in SessionIds |->
        [pc |-> "idle", user |-> "", data |-> NoUpdate, loaded |-> NoRow, pending |-> NoRow,
         stale |-> FALSE, status |-> 0]]

\* status_code carried by the exceptions of app/domain/exceptions.py
DomainExceptionStatus == 400
PermissionDeniedStatus == 403

VARIABLES now, nextJti, tokens, blacklist, users, groupPerms,
          last, loggedOut, rotated, registering, auth_group, cleanup_task, sessions
\* rotated: history of the successful refresh calls, <<jti presented, jti of
\* the refresh token returned>> (the service itself keeps no such record)
\* registering: the accounts whose register_user call has committed the user
\* row and has not yet committed the membership in the default group
\* auth_group: the rows of the auth_group table, by id
\* cleanup_task: app.state.cleanup_task, the periodic_cleanup coroutine
\* sessions: per AsyncSession running update_user, the row it has loaded
\* (loaded), the loaded object after its attributes were set (pending), and
\* whether another session has committed to the row since (stale)

vars == <<now, nextJti, tokens, blacklist, users, groupPerms,
          last, loggedOut, rotated, registering, auth_group, cleanup_task, sessions>>

\* ------------------------------------------------------------------------
\* Values
\* ------------------------------------------------------------------------
NoToken == [jti |-> 0, sub |-> "", type |-> "none", exp |-> 0, signed |-> FALSE]

\* a bearer string that is not a JWT signed with the service's secret
GarbageToken == [jti |-> 0, sub |-> "u1", type |-> "user", exp |-> MaxTime + ClientTtl + 1,
                 signed |-> FALSE]

NoNeed == [dep |-> "none", codes |-> {}, all |-> FALSE]

Needs ==
    {NoNeed}
    \cup {[dep |-> "require_permission_or_superuser", codes |-> {c}, all |-> FALSE] :
            c \in Codenames}
    \cup {[dep |-> "require_permissions", codes |-> cs, all |-> a] :
            cs \in (SUBSET Codenames) \ {{}}, a \in BOOLEAN}

Out(status, exc, detail) == [status |-> status, exc |-> exc, detail |-> detail]

\* what the last finished operation answered: the HTTP status where the endpoint
\* maps it, otherwise the status_code attribute of the exception that escaped
BaseResult ==
    [op |-> "init", tok |-> NoToken, status |-> 0, exc |-> "", detail |-> "",
     need |-> NoNeed, issued |-> {}, dbfail |-> FALSE,
     user |-> "", email |-> "", password |-> "", count |-> 0, value |-> FALSE,
     csrf_ok |-> FALSE]

Res(op, tok, out) ==
    [BaseResult EXCEPT !.op = op, !.tok = tok, !.status = out.status,
                       !.exc = out.exc, !.detail = out.detail]

\* ------------------------------------------------------------------------
\* Password hasher (passlib bcrypt context): a one-way tagged value
\* ------------------------------------------------------------------------
hash_password(password) == <<"bcrypt", password>>

verify_password(plain_password, hashed_password) ==
    hashed_password = <<"bcrypt", plain_password>>

\* ------------------------------------------------------------------------
\* Token codec
\* ------------------------------------------------------------------------
\* jose.jwt.decode: signature check, then exp check (expired iff exp < now)
jwt_decode_ok(tok) == tok.signed /\ ~(tok.exp < now)

validate_uuid(uuid_string) == uuid_string \in UserIds

\* create_access_token writing no jti claim (0 stands for an absent jti)
create_access_token_without_jti(subject, jti) ==
    [jti |-> 0, sub |-> subject, type |-> "user", exp |-> now + AccessTtl, signed |-> TRUE]

\* UserAuthManager.create_access_token; jti stands for its uuid.uuid4()
create_access_token(subject, jti) ==
    [jti |-> jti, sub |-> subject, type |-> "user", exp |-> now + AccessTtl, signed |-> TRUE]

create_refresh_token(subject, token_id) ==
    [jti |-> token_id, sub |-> subject, type |-> "refresh", exp |-> now + RefreshTtl,
     signed |-> TRUE]

create_client_token(subject, jti) ==
    [jti |-> jti, sub |-> subject, type |-> "client", exp |-> now + ClientTtl, signed |-> TRUE]

\* JWTCookieManager.create_access_token
cookie_create_access_token(subject, jti) ==
    [jti |-> jti, sub |-> subject, type |-> "access", exp |-> now + AccessTtl, signed |-> TRUE]

\* ------------------------------------------------------------------------
\* Token blacklist store
\* ------------------------------------------------------------------------
is_blacklisted(jti) == \E e \in blacklist : e.jti = jti

\* ------------------------------------------------------------------------
\* Initial state: a deployed instance with its seeded groups and two
\* accounts, no token issued, nothing revoked.
\* ------------------------------------------------------------------------
InitUsers ==
    [u \in UserIds |->
        IF u = "u1"
        THEN [exists |-> TRUE, email |-> "a@x", password |-> hash_password("Pw1!"),
              is_active |-> TRUE, is_superuser |-> FALSE,
              groups |-> {"user"}, permissions |-> {}]
        ELSE [exists |-> TRUE, email |-> "b@x", password |-> hash_password("Pw2!"),
              is_active |-> TRUE, is_superuser |-> TRUE,
              groups |-> {}, permissions |-> {}]]

InitGroupPerms ==
    [g \in Groups |-> IF g = "user" THEN {"view_profile"} ELSE Codenames]

InitLast == BaseResult

Init ==
    /\ now = 0
    /\ nextJti = 1
    /\ tokens = {}
    /\ blacklist = {}
    /\ users = InitUsers
    /\ groupPerms = InitGroupPerms
    /\ last = InitLast
    /\ loggedOut = {}
    /\ rotated = {}
    /\ registering = {}
    /\ auth_group = InitAuthGroup
    /\ cleanup_task = InitCleanupTask
    /\ sessions = InitSessions

\* ------------------------------------------------------------------------
\* Clock
\* ------------------------------------------------------------------------
Tick ==
    /\ now < MaxTime
    /\ now' = now + 1
    /\ UNCHANGED <<nextJti, tokens, blacklist, users, groupPerms, last, loggedOut, rotated, registering,
                   auth_group, cleanup_task, sessions>>

\* ------------------------------------------------------------------------
\* Permission resolver
\* ------------------------------------------------------------------------
\* has_permission with the direct grants left out
has_permission_groups_only(user, permission_codename) ==
    IF user.is_superuser THEN TRUE
    ELSE \E group \in user.groups :
            \E perm \in groupPerms[group] : perm = permission_codename

\* User.has_permission: superuser first, then direct grants, then each group
has_permission(user, permission_codename) ==
    IF user.is_superuser THEN TRUE
    ELSE IF \E perm \in user.permissions : perm = permission_codename THEN TRUE
    ELSE \E group \in user.groups :
            \E perm \in groupPerms[group] : perm = permission_codename

collect_user_permissions(user) ==
    user.permissions \cup UNION {groupPerms[group] : group \in user.groups}

\* the permission dependency with require_all read as "any one suffices"
permission_dependency_any(user, need) ==
    IF need.dep = "none" THEN Out(200, "", "")
    ELSE IF user.is_superuser THEN Out(200, "", "")
    ELSE IF \E c \in need.codes : c \in collect_user_permissions(user)
    THEN Out(200, "", "")
    ELSE Out(403, "HTTPException", "You need at least one of these permissions")

\* the outcome of the permission dependency placed on an endpoint, given the
\* principal the guard resolved: Out(200, ...) lets the call through
permission_dependency(user, need) ==
    IF need.dep = "none" THEN Out(200, "", "")
    ELSE IF user.is_superuser THEN Out(200, "", "")
    ELSE IF need.dep = "require_permission_or_superuser"
    THEN IF \E c \in need.codes : c \notin collect_user_permissions(user)
         THEN Out(PermissionDeniedStatus, "PermissionDeniedException", "Permission denied")
         ELSE Out(200, "", "")
    ELSE IF need.all
    THEN IF {p \in need.codes : ~has_permission(user, p)} # {}
         THEN Out(403, "HTTPException", "You need all of these permissions")
         ELSE Out(200, "", "")
    ELSE IF ~(\E p \in need.codes : has_permission(user, p))
         THEN Out(403, "HTTPException", "You need at least one of these permissions")
         ELSE Out(200, "", "")

\* ------------------------------------------------------------------------
\* Token issue
\* ------------------------------------------------------------------------
get_by_email(email) == {u \in UserIds : users[u].exists /\ users[u].email = email}

\* authenticate with the is_active test left out
authenticate_without_active_check(email, password) ==
    IF get_by_email(email) = {}
    THEN Out(401, "InvalidCredentialsException", "Incorrect email or password")
    ELSE LET u == CHOOSE u \in get_by_email(email) : TRUE IN
         IF ~verify_password(password, users[u].password)
         THEN Out(401, "InvalidCredentialsException", "Incorrect email or password")
         ELSE Out(200, "", u)

\* AsyncUserCRUD.authenticate: the user id in .detail when .status = 200
authenticate(email, password) ==
    IF get_by_email(email) = {}
    THEN Out(401, "InvalidCredentialsException", "Incorrect email or password")
    ELSE LET u == CHOOSE u \in get_by_email(email) : TRUE IN
         IF ~users[u].is_active
         THEN Out(401, "InvalidCredentialsException", "Inactive user")
         ELSE IF ~verify_password(password, users[u].password)
         THEN Out(401, "InvalidCredentialsException", "Incorrect email or password")
         ELSE Out(200, "", u)

\* POST /auth/login -> AsyncAuthService.login_user
login_user(email, password) ==
    LET auth == authenticate(email, password)
        base == [BaseResult EXCEPT !.op = "login", !.email = email,
                                   !.password = password]
    IN
    IF auth.status # 200
    THEN /\ last' = [base EXCEPT !.status = auth.status, !.exc = auth.exc,
                                 !.detail = auth.detail]
         /\ UNCHANGED <<nextJti, tokens>>
    ELSE /\ Cardinality(tokens) + 2 <= MaxTokens
         /\ LET token_id == nextJti
                access_token == create_access_token(auth.detail, nextJti + 1)
                refresh == create_refresh_token(auth.detail, token_id)
            IN /\ tokens' = tokens \cup {access_token, refresh}
               /\ last' = [base EXCEPT !.status = 200, !.user = auth.detail,
                                       !.issued = {access_token, refresh}]
         /\ nextJti' = nextJti + 2

LoginUser ==
    \E email \in Emails, password \in Passwords :
        /\ login_user(email, password)
        /\ UNCHANGED <<now, blacklist, users, groupPerms, loggedOut, rotated, registering,
                       auth_group, cleanup_task, sessions>>

\* a caller application obtains its client token (ClientAuthManager), once
IssueClientToken ==
    \E c \in ClientIds :
        /\ Cardinality(tokens) + 1 <= MaxTokens
        /\ ~\E t \in tokens : t.type = "client" /\ t.sub = c
        /\ tokens' = tokens \cup {create_client_token(c, nextJti)}
        /\ nextJti' = nextJti + 1
        /\ last' = [BaseResult EXCEPT !.op = "client_token", !.status = 200,
                                      !.issued = {create_client_token(c, nextJti)}]
        /\ UNCHANGED <<now, blacklist, users, groupPerms, loggedOut, rotated, registering,
                       auth_group, cleanup_task, sessions>>

\* a token minted by the cookie manager's factory (type "access"), one for
\* each account
IssueCookieAccessToken ==
    \E u \in UserIds :
        /\ Cardinality(tokens) + 1 <= MaxTokens
        /\ ~\E t \in tokens : t.type = "access" /\ t.sub = u
        /\ tokens' = tokens \cup {cookie_create_access_token(u, nextJti)}
        /\ nextJti' = nextJti + 1
        /\ last' = [BaseResult EXCEPT !.op = "cookie_token", !.status = 200,
                                      !.issued = {cookie_create_access_token(u, nextJti)}]
        /\ UNCHANGED <<now, blacklist, users, groupPerms, loggedOut, rotated, registering,
                       auth_group, cleanup_task, sessions>>

\* ------------------------------------------------------------------------
\* Token blacklist store: writes
\* ------------------------------------------------------------------------
\* AsyncTokenRepository.add_to_blacklist commits one INSERT; jti is the primary
\* key, so a second row with the same jti is an IntegrityError, which like any
\* SQLAlchemyError is rolled back and raised as DatabaseOperationException.
\* A row is kept as (jti, expires_at); revoked_at is written and never read.
add_to_blacklist_ok(jti, dbfail) == ~dbfail /\ ~is_blacklisted(jti)

\* datetime.fromtimestamp(exp, tz=timezone.utc).replace(tzinfo=None)
utc_naive(timestamp) == timestamp

\* offsets of local time from UTC that the process serving a request may
\* run under (the TZ of its host, daylight saving)
TzOffsets == {0 - TzSkew, 0, TzSkew}

\* datetime.fromtimestamp(exp): naive local time of the serving process
local_naive(timestamp, tz) == timestamp + tz

\* AsyncTokenRepository.cleanup_expired: now is naive UTC
expired_entries == {e \in blacklist : e.expires_at < utc_naive(now)}

\* ------------------------------------------------------------------------
\* POST /auth/logout (bearer)
\* ------------------------------------------------------------------------
logout_user(tok, dbfail) ==
    LET base == [Res("logout", tok, Out(0, "", "")) EXCEPT !.dbfail = dbfail] IN
    IF ~jwt_decode_ok(tok)
    THEN /\ last' = [base EXCEPT !.status = 401, !.exc = "HTTPException",
                                 !.detail = "Invalid token."]
         /\ UNCHANGED <<blacklist, loggedOut>>
    ELSE IF tok.jti = 0
    THEN /\ last' = [base EXCEPT !.status = 400, !.exc = "HTTPException",
                                 !.detail = "Token does not support revocation."]
         /\ UNCHANGED <<blacklist, loggedOut>>
    ELSE IF ~add_to_blacklist_ok(tok.jti, dbfail)
    THEN /\ last' = [base EXCEPT !.status = DomainExceptionStatus,
                                 !.exc = "DatabaseOperationException",
                                 !.detail = "Error adding token to blacklist"]
         /\ UNCHANGED <<blacklist, loggedOut>>
    ELSE /\ blacklist' = blacklist \cup
                {[jti |-> tok.jti, expires_at |-> utc_naive(tok.exp)]}
         /\ last' = [base EXCEPT !.status = 200, !.detail = "Successfully logged out."]
         /\ loggedOut' = loggedOut \cup {tok}

LogoutUser ==
    \E tok \in tokens \cup {GarbageToken}, dbfail \in BOOLEAN :
        /\ logout_user(tok, dbfail)
        /\ UNCHANGED <<now, nextJti, tokens, users, groupPerms, rotated, registering, auth_group,
                       cleanup_task, sessions>>

\* ------------------------------------------------------------------------
\* Cookie transport
\* ------------------------------------------------------------------------
\* get_current_user_from_cookie.  Every HTTPException raised inside its try
\* block is caught by the trailing "except Exception" and re-raised as 500;
\* only a JWTError keeps its 401.
get_current_user_from_cookie(tok, unsafe_method, csrf_ok, dbfail) ==
    IF tok = NoToken THEN Out(401, "HTTPException", "Authentication cookie missing")
    ELSE IF unsafe_method /\ ~csrf_ok
    THEN Out(403, "HTTPException", "CSRF token validation failed")
    ELSE IF ~jwt_decode_ok(tok)
    THEN Out(401, "HTTPException", "Invalid or expired token")
    ELSE IF tok.type # "access" THEN Out(500, "HTTPException", "Internal server error")
    ELSE IF tok.sub = "" THEN Out(500, "HTTPException", "Internal server error")
    ELSE IF tok.jti # 0 /\ dbfail THEN Out(500, "HTTPException", "Internal server error")
    ELSE IF tok.jti # 0 /\ is_blacklisted(tok.jti)
    THEN Out(500, "HTTPException", "Internal server error")
    ELSE IF tok.jti = 0 /\ dbfail THEN Out(500, "HTTPException", "Internal server error")
    ELSE IF tok.sub \notin UserIds \/ ~users[tok.sub].exists
    THEN Out(500, "HTTPException", "Internal server error")
    ELSE IF ~users[tok.sub].is_active
    THEN Out(500, "HTTPException", "Internal server error")
    ELSE Out(200, "", tok.sub)

\* POST /auth-cookie/logout
logout_with_cookies(tok, csrf_ok, dbfail, tz) ==
    LET dep == get_current_user_from_cookie(tok, TRUE, csrf_ok, dbfail)
        base == [Res("cookie_logout", tok, Out(0, "", ""))
                    EXCEPT !.dbfail = dbfail, !.csrf_ok = csrf_ok]
    IN
    IF dep.status # 200
    THEN /\ last' = [base EXCEPT !.status = dep.status, !.exc = dep.exc,
                                 !.detail = dep.detail]
         /\ UNCHANGED <<blacklist, loggedOut>>
    ELSE IF tok.jti = 0
    THEN /\ last' = [base EXCEPT !.status = 200, !.detail = "Successfully logged out"]
         /\ UNCHANGED <<blacklist, loggedOut>>
    ELSE IF ~add_to_blacklist_ok(tok.jti, dbfail)
    THEN /\ last' = [base EXCEPT !.status = 500, !.exc = "HTTPException",
                                 !.detail = "Internal server error."]
         /\ UNCHANGED <<blacklist, loggedOut>>
    ELSE /\ blacklist' = blacklist \cup
                {[jti |-> tok.jti, expires_at |-> local_naive(tok.exp, tz)]}
         /\ last' = [base EXCEPT !.status = 200, !.detail = "Successfully logged out"]
         /\ loggedOut' = loggedOut \cup {tok}

\* a GET request to an endpoint protected by the cookie guard
CookieGuard ==
    \E tok \in tokens \cup {GarbageToken, NoToken}, dbfail \in BOOLEAN :
        /\ last' = [Res("cookie_guard", tok,
                        get_current_user_from_cookie(tok, FALSE, FALSE, dbfail))
                        EXCEPT !.dbfail = dbfail]
        /\ UNCHANGED <<now, nextJti, tokens, blacklist, users, groupPerms, loggedOut, rotated, registering,
                       auth_group, cleanup_task, sessions>>

LogoutWithCookies ==
    \E tok \in tokens \cup {NoToken}, csrf_ok \in BOOLEAN, dbfail \in BOOLEAN,
       tz \in TzOffsets :
        /\ logout_with_cookies(tok, csrf_ok, dbfail, tz)
        /\ UNCHANGED <<now, nextJti, tokens, users, groupPerms, rotated, registering, auth_group,
                       cleanup_task, sessions>>

\* ------------------------------------------------------------------------
\* Periodic task: one run of cleanup_token_blacklist.  The task runs at each
\* start of the application and then once per sleep interval.
\* ------------------------------------------------------------------------
cleanup_expired(dbfail) ==
    IF dbfail
    THEN /\ last' = [BaseResult EXCEPT !.op = "cleanup", !.dbfail = TRUE,
                        !.status = DomainExceptionStatus,
                        !.exc = "DatabaseOperationException",
                        !.detail = "Error cleaning up expired blacklisted tokens"]
         /\ UNCHANGED blacklist
    ELSE /\ blacklist' = blacklist \ expired_entries
         /\ last' = [BaseResult EXCEPT !.op = "cleanup", !.status = 200,
                        !.count = Cardinality(expired_entries)]

CleanupExpired ==
    \E dbfail \in BOOLEAN :
        /\ cleanup_expired(dbfail)
        /\ UNCHANGED <<now, nextJti, tokens, users, groupPerms, loggedOut, rotated, registering,
                       auth_group, cleanup_task, sessions>>

\* ------------------------------------------------------------------------
\* Guards of the bearer transport (deps.py).  dbfail: the first query of the
\* request meets a storage error and raises.
\* ------------------------------------------------------------------------
\* the guard with the lookup in the revocation list left out
guard_without_blacklist_check(tok, dbfail) ==
    IF ~jwt_decode_ok(tok)
    THEN Out(401, "HTTPException", "Invalid authentication credentials.")
    ELSE IF tok.sub = "" \/ ~validate_uuid(tok.sub)
    THEN Out(401, "HTTPException", "Invalid authentication credentials.")
    ELSE IF dbfail
    THEN Out(DomainExceptionStatus, "DatabaseOperationException", "Error retrieving User")
    ELSE IF ~users[tok.sub].exists
    THEN Out(401, "HTTPException", "User not found.")
    ELSE IF ~users[tok.sub].is_active
    THEN Out(401, "HTTPException", "Inactive user.")
    ELSE Out(200, "", tok.sub)

\* the guard with a failed lookup taken as "not revoked"
guard_fail_open(tok, dbfail) ==
    IF ~jwt_decode_ok(tok)
    THEN Out(401, "HTTPException", "Invalid authentication credentials.")
    ELSE IF tok.sub = "" \/ ~validate_uuid(tok.sub)
    THEN Out(401, "HTTPException", "Invalid authentication credentials.")
    ELSE IF tok.jti # 0 /\ ~dbfail /\ is_blacklisted(tok.jti)
    THEN Out(401, "HTTPException", "Token has been revoked.")
    ELSE IF tok.jti = 0 /\ dbfail
    THEN Out(DomainExceptionStatus, "DatabaseOperationException", "Error retrieving User")
    ELSE IF ~users[tok.sub].exists
    THEN Out(401, "HTTPException", "User not found.")
    ELSE IF ~users[tok.sub].is_active
    THEN Out(401, "HTTPException", "Inactive user.")
    ELSE Out(200, "", tok.sub)

\* the guard with the is_active test left out
guard_without_active_check(tok, dbfail) ==
    IF ~jwt_decode_ok(tok)
    THEN Out(401, "HTTPException", "Invalid authentication credentials.")
    ELSE IF tok.sub = "" \/ ~validate_uuid(tok.sub)
    THEN Out(401, "HTTPException", "Invalid authentication credentials.")
    ELSE IF tok.jti # 0 /\ dbfail
    THEN Out(DomainExceptionStatus, "DatabaseOperationException",
             "Error checking token blacklist")
    ELSE IF tok.jti # 0 /\ is_blacklisted(tok.jti)
    THEN Out(401, "HTTPException", "Token has been revoked.")
    ELSE IF tok.jti = 0 /\ dbfail
    THEN Out(DomainExceptionStatus, "DatabaseOperationException", "Error retrieving User")
    ELSE IF ~users[tok.sub].exists
    THEN Out(401, "HTTPException", "User not found.")
    ELSE Out(200, "", tok.sub)

\* get_permissions_current_user: only JWTError is caught, every other
\* exception leaves the dependency as it is
get_permissions_current_user(tok, dbfail) ==
    IF ~jwt_decode_ok(tok)
    THEN Out(401, "HTTPException", "Invalid authentication credentials.")
    ELSE IF tok.sub = "" \/ ~validate_uuid(tok.sub)
    THEN Out(401, "HTTPException", "Invalid authentication credentials.")
    ELSE IF tok.jti # 0 /\ dbfail
    THEN Out(DomainExceptionStatus, "DatabaseOperationException",
             "Error checking token blacklist")
    ELSE IF tok.jti # 0 /\ is_blacklisted(tok.jti)
    THEN Out(401, "HTTPException", "Token has been revoked.")
    ELSE IF tok.jti = 0 /\ dbfail
    THEN Out(DomainExceptionStatus, "DatabaseOperationException", "Error retrieving User")
    ELSE IF ~users[tok.sub].exists
    THEN Out(401, "HTTPException", "User not found.")
    ELSE IF ~users[tok.sub].is_active
    THEN Out(401, "HTTPException", "Inactive user.")
    ELSE Out(200, "", tok.sub)

\* a request to an endpoint protected by the user guard
UserGuard ==
    \E tok \in tokens \cup {GarbageToken}, dbfail \in BOOLEAN :
        /\ last' = [Res("user_guard", tok, get_permissions_current_user(tok, dbfail))
                        EXCEPT !.dbfail = dbfail]
        /\ UNCHANGED <<now, nextJti, tokens, blacklist, users, groupPerms, loggedOut, rotated, registering,
                       auth_group, cleanup_task, sessions>>

\* ClientAuthManager.verify_client_token: decode, then the type claim
client_token_payload_ok(tok) == jwt_decode_ok(tok) /\ tok.type = "client"

\* deps.verify_client_token
verify_client_token(tok, dbfail) ==
    IF ~client_token_payload_ok(tok)
    THEN Out(401, "HTTPException", "Invalid client token.")
    ELSE IF tok.jti # 0 /\ dbfail
    THEN Out(DomainExceptionStatus, "DatabaseOperationException",
             "Error checking token blacklist")
    ELSE IF tok.jti # 0 /\ is_blacklisted(tok.jti)
    THEN Out(401, "HTTPException", "Client token has been revoked.")
    ELSE IF tok.sub = ""
    THEN Out(401, "HTTPException", "Invalid token: 'sub' not found in client token.")
    ELSE Out(200, "", tok.sub)

\* a request to an endpoint protected by the client guard
ClientGuard ==
    \E tok \in tokens \cup {GarbageToken}, dbfail \in BOOLEAN :
        /\ last' = [Res("client_guard", tok, verify_client_token(tok, dbfail))
                        EXCEPT !.dbfail = dbfail]
        /\ UNCHANGED <<now, nextJti, tokens, blacklist, users, groupPerms, loggedOut, rotated, registering,
                       auth_group, cleanup_task, sessions>>

\* ------------------------------------------------------------------------
\* POST /auth/refresh -> AsyncAuthService.refresh_token
\* ------------------------------------------------------------------------
\* verify_refresh_token with the test of the type claim left out
verify_refresh_token_any_type(tok) ==
    IF ~jwt_decode_ok(tok)
    THEN Out(401, "InvalidCredentialsException", "Invalid or expired refresh token.")
    ELSE Out(200, "", "")

\* verify_refresh_token refusing a token that has been rotated before
verify_refresh_token_single_use(tok) ==
    IF ~jwt_decode_ok(tok)
    THEN Out(401, "InvalidCredentialsException", "Invalid or expired refresh token.")
    ELSE IF tok.type # "refresh"
    THEN Out(401, "InvalidCredentialsException", "Invalid refresh token type.")
    ELSE IF \E p \in rotated : p[1] = tok.jti
    THEN Out(401, "InvalidCredentialsException", "Invalid or expired refresh token.")
    ELSE Out(200, "", "")

\* UserAuthManager.verify_refresh_token
verify_refresh_token(tok) ==
    IF ~jwt_decode_ok(tok)
    THEN Out(401, "InvalidCredentialsException", "Invalid or expired refresh token.")
    ELSE IF tok.type # "refresh"
    THEN Out(401, "InvalidCredentialsException", "Invalid refresh token type.")
    ELSE Out(200, "", "")

\* refresh_token with the look-up of the user left out
refresh_token_without_user_check(req, tok, dbfail) ==
    LET v == verify_refresh_token(tok)
        base == [req EXCEPT !.tok = tok, !.dbfail = dbfail]
    IN
    IF v.status # 200
    THEN /\ last' = [base EXCEPT !.status = v.status, !.exc = v.exc, !.detail = v.detail]
         /\ UNCHANGED <<nextJti, tokens, rotated>>
    ELSE IF tok.sub = "" \/ tok.jti = 0
    THEN /\ last' = [base EXCEPT !.status = 401, !.exc = "InvalidCredentialsException",
                                 !.detail = "Invalid refresh token."]
         /\ UNCHANGED <<nextJti, tokens, rotated>>
    ELSE IF dbfail
    THEN /\ last' = [base EXCEPT !.status = 500, !.exc = "DatabaseOperationException",
                                 !.detail = "Internal server error."]
         /\ UNCHANGED <<nextJti, tokens, rotated>>
    ELSE /\ Cardinality(tokens) + 2 <= MaxTokens
         /\ LET new_token_id == nextJti
                new_access_token == create_access_token(tok.sub, nextJti + 1)
                new_refresh_token == create_refresh_token(tok.sub, new_token_id)
            IN /\ tokens' = tokens \cup {new_access_token, new_refresh_token}
               /\ last' = [base EXCEPT !.status = 200, !.user = tok.sub,
                                       !.issued = {new_access_token, new_refresh_token}]
               /\ rotated' = rotated \cup {<<tok.jti, new_token_id>>}
         /\ nextJti' = nextJti + 2

\* refresh_token handing the presented jti on to the new refresh token
refresh_token_same_jti(req, tok, dbfail) ==
    LET v == verify_refresh_token(tok)
        base == [req EXCEPT !.tok = tok, !.dbfail = dbfail]
    IN
    IF v.status # 200
    THEN /\ last' = [base EXCEPT !.status = v.status, !.exc = v.exc, !.detail = v.detail]
         /\ UNCHANGED <<nextJti, tokens, rotated>>
    ELSE IF tok.sub = "" \/ tok.jti = 0
    THEN /\ last' = [base EXCEPT !.status = 401, !.exc = "InvalidCredentialsException",
                                 !.detail = "Invalid refresh token."]
         /\ UNCHANGED <<nextJti, tokens, rotated>>
    ELSE IF dbfail
    THEN /\ last' = [base EXCEPT !.status = 500, !.exc = "DatabaseOperationException",
                                 !.detail = "Internal server error."]
         /\ UNCHANGED <<nextJti, tokens, rotated>>
    ELSE IF tok.sub \notin UserIds \/ ~users[tok.sub].exists \/ ~users[tok.sub].is_active
    THEN /\ last' = [base EXCEPT !.status = 401, !.exc = "InvalidCredentialsException",
                                 !.detail = "User not found or inactive."]
         /\ UNCHANGED <<nextJti, tokens, rotated>>
    ELSE /\ Cardinality(tokens) + 2 <= MaxTokens
         /\ LET new_token_id == tok.jti
                new_access_token == create_access_token(tok.sub, nextJti + 1)
                new_refresh_token == create_refresh_token(tok.sub, new_token_id)
            IN /\ tokens' = tokens \cup {new_access_token, new_refresh_token}
               /\ last' = [base EXCEPT !.status = 200, !.user = tok.sub,
                                       !.issued = {new_access_token, new_refresh_token}]
               /\ rotated' = rotated \cup {<<tok.jti, new_token_id>>}
         /\ nextJti' = nextJti + 2

\* AsyncAuthService.refresh_token: new_token_id stands for uuid.uuid4(), the
\* new access token draws its own jti inside create_access_token
\* (req: the answer record the calling endpoint has prepared)
refresh_token(req, tok, dbfail) ==
    LET v == verify_refresh_token(tok)
        base == [req EXCEPT !.tok = tok, !.dbfail = dbfail]
    IN
    IF v.status # 200
    THEN /\ last' = [base EXCEPT !.status = v.status, !.exc = v.exc, !.detail = v.detail]
         /\ UNCHANGED <<nextJti, tokens, rotated>>
    ELSE IF tok.sub = "" \/ tok.jti = 0
    THEN /\ last' = [base EXCEPT !.status = 401, !.exc = "InvalidCredentialsException",
                                 !.detail = "Invalid refresh token."]
         /\ UNCHANGED <<nextJti, tokens, rotated>>
    ELSE IF dbfail
    THEN /\ last' = [base EXCEPT !.status = 500, !.exc = "DatabaseOperationException",
                                 !.detail = "Internal server error."]
         /\ UNCHANGED <<nextJti, tokens, rotated>>
    ELSE IF tok.sub \notin UserIds \/ ~users[tok.sub].exists \/ ~users[tok.sub].is_active
    THEN /\ last' = [base EXCEPT !.status = 401, !.exc = "InvalidCredentialsException",
                                 !.detail = "User not found or inactive."]
         /\ UNCHANGED <<nextJti, tokens, rotated>>
    ELSE /\ Cardinality(tokens) + 2 <= MaxTokens
         /\ LET new_token_id == nextJti
                new_access_token == create_access_token(tok.sub, nextJti + 1)
                new_refresh_token == create_refresh_token(tok.sub, new_token_id)
            IN /\ tokens' = tokens \cup {new_access_token, new_refresh_token}
               /\ last' = [base EXCEPT !.status = 200, !.user = tok.sub,
                                       !.issued = {new_access_token, new_refresh_token}]
               /\ rotated' = rotated \cup {<<tok.jti, new_token_id>>}
         /\ nextJti' = nextJti + 2

RefreshToken ==
    \E tok \in tokens \cup {GarbageToken}, dbfail \in BOOLEAN :
        /\ refresh_token([BaseResult EXCEPT !.op = "refresh"], tok, dbfail)
        /\ UNCHANGED <<now, blacklist, users, groupPerms, loggedOut, registering, auth_group,
                       cleanup_task, sessions>>

\* ------------------------------------------------------------------------
\* Account administration (AsyncUserService behind the superuser endpoints
\* of user_endpoint.py, which answer 404 for ResourceNotFoundException and
\* 500 for any other exception, and refuse the caller's own account)
\* ------------------------------------------------------------------------
\* _get_user_by_id: Out(200, ...) when the account exists and is active
get_user_by_id(user_id) ==
    IF ~users[user_id].exists
    THEN Out(404, "ResourceNotFoundException", "User not found")
    ELSE IF ~users[user_id].is_active
    THEN Out(500, "ResourceInactiveException", "Internal server error.")
    ELSE Out(200, "", user_id)

deactivate_user(user_id) ==
    LET got == get_user_by_id(user_id)
        base == [BaseResult EXCEPT !.op = "deactivate", !.user = user_id]
    IN
    IF got.status # 200
    THEN /\ last' = [base EXCEPT !.status = got.status, !.exc = got.exc,
                                 !.detail = got.detail]
         /\ UNCHANGED users
    ELSE /\ users' = [users EXCEPT ![user_id].is_active = FALSE]
         /\ last' = [base EXCEPT !.status = 200, !.detail = "successfully deactivated"]

reactivate_user(user_id) ==
    LET base == [BaseResult EXCEPT !.op = "reactivate", !.user = user_id] IN
    IF ~users[user_id].exists
    THEN /\ last' = [base EXCEPT !.status = 404,
                                 !.exc = "ResourceNotFoundException",
                                 !.detail = "User not found"]
         /\ UNCHANGED users
    ELSE IF users[user_id].is_active
    THEN /\ last' = [base EXCEPT !.status = 200, !.detail = "already active"]
         /\ UNCHANGED users
    ELSE /\ users' = [users EXCEPT ![user_id].is_active = TRUE]
         /\ last' = [base EXCEPT !.status = 200, !.detail = "successfully reactivated"]

delete_user_permanently(user_id) ==
    LET base == [BaseResult EXCEPT !.op = "delete", !.user = user_id] IN
    IF ~users[user_id].exists
    THEN /\ last' = [base EXCEPT !.status = 404,
                                 !.exc = "ResourceNotFoundException",
                                 !.detail = "User not found"]
         /\ UNCHANGED users
    ELSE /\ users' = [users EXCEPT ![user_id].exists = FALSE,
                                   ![user_id].groups = {},
                                   ![user_id].permissions = {}]
         /\ last' = [base EXCEPT !.status = 200, !.detail = "permanently deleted"]

\* the accounts the superuser u2 can act on: every account but its own
Managed == {"u1"}

DeactivateUser ==
    \E user_id \in Managed :
        /\ deactivate_user(user_id)
        /\ UNCHANGED <<now, nextJti, tokens, blacklist, groupPerms, loggedOut, rotated, registering,
                       auth_group, cleanup_task, sessions>>

ReactivateUser ==
    \E user_id \in Managed :
        /\ reactivate_user(user_id)
        /\ UNCHANGED <<now, nextJti, tokens, blacklist, groupPerms, loggedOut, rotated, registering,
                       auth_group, cleanup_task, sessions>>

DeleteUserPermanently ==
    \E user_id \in Managed :
        /\ delete_user_permanently(user_id)
        /\ UNCHANGED <<now, nextJti, tokens, blacklist, groupPerms, loggedOut, rotated, registering,
                       auth_group, cleanup_task, sessions>>

\* ------------------------------------------------------------------------
\* The bearer transport: the life of user sessions
\* ------------------------------------------------------------------------
Next ==
    \/ Tick
    \/ LoginUser
    \/ LogoutUser
    \/ UserGuard
    \/ RefreshToken
    \/ DeactivateUser
    \/ ReactivateUser
    \/ DeleteUserPermanently
    \/ CleanupExpired

Spec == Init /\ [][Next]_vars

\* ------------------------------------------------------------------------
\* The bearer transport: user tokens and client tokens side by side
\* ------------------------------------------------------------------------
NextClient ==
    \/ Tick
    \/ LoginUser
    \/ IssueClientToken
    \/ UserGuard
    \/ ClientGuard
    \/ LogoutUser

SpecClient == Init /\ [][NextClient]_vars

\* ------------------------------------------------------------------------
\* Refresh tokens over their life: callers log in, rotate, log out, and may
\* lose the pair a refresh has just returned (the response never reaches
\* them); MaxJti caps the number of identifiers ever drawn
\* ------------------------------------------------------------------------
Discard ==
    /\ last.op = "refresh"
    /\ last.status = 200
    /\ tokens' = tokens \ last.issued
    /\ last' = [BaseResult EXCEPT !.op = "discard"]
    /\ UNCHANGED <<now, nextJti, blacklist, users, groupPerms, loggedOut, rotated, registering,
                   auth_group, cleanup_task, sessions>>

NextRefresh ==
    \/ Tick
    \/ nextJti + 1 <= MaxJti /\ LoginUser
    \/ nextJti + 1 <= MaxJti /\ RefreshToken
    \/ LogoutUser
    \/ Discard

SpecRefresh == Init /\ [][NextRefresh]_vars

\* ------------------------------------------------------------------------
\* The refresh endpoint offered every type of token the service issues
\* ------------------------------------------------------------------------
NextRefreshTypes ==
    \/ Tick
    \/ LoginUser
    \/ IssueClientToken
    \/ IssueCookieAccessToken
    \/ RefreshToken

SpecRefreshTypes == Init /\ [][NextRefreshTypes]_vars

\* ------------------------------------------------------------------------
\* The cookie transport
\* ------------------------------------------------------------------------
NextCookie ==
    \/ Tick
    \/ IssueCookieAccessToken
    \/ LogoutWithCookies
    \/ LogoutUser
    \/ CookieGuard
    \/ CleanupExpired

SpecCookie == Init /\ [][NextCookie]_vars

\* ------------------------------------------------------------------------
\* Both transports over the same tokens: POST /auth-cookie/login calls
\* login_user and puts the pair it returns into the cookies, so the tokens
\* of LoginUser are presented to the cookie endpoints as well as to the
\* bearer guard
\* ------------------------------------------------------------------------
\* POST /auth-cookie/refresh: the refresh_token cookie goes to
\* AsyncAuthService.refresh_token; the handler does not depend on
\* get_current_user_from_cookie and reads neither CSRF header nor CSRF cookie
refresh_token_cookie(tok, csrf_ok, dbfail) ==
    LET req == [BaseResult EXCEPT !.op = "cookie_refresh", !.csrf_ok = csrf_ok] IN
    IF tok = NoToken
    THEN /\ last' = [req EXCEPT !.status = 401, !.exc = "HTTPException", !.dbfail = dbfail,
                                !.detail = "Refresh token cookie not found"]
         /\ UNCHANGED <<nextJti, tokens, rotated>>
    ELSE refresh_token(req, tok, dbfail)

RefreshTokenCookie ==
    \E tok \in tokens \cup {NoToken}, csrf_ok \in BOOLEAN, dbfail \in BOOLEAN :
        /\ refresh_token_cookie(tok, csrf_ok, dbfail)
        /\ UNCHANGED <<now, blacklist, users, groupPerms, loggedOut, registering, auth_group,
                       cleanup_task, sessions>>

NextTransports ==
    \/ Tick
    \/ LoginUser
    \/ IssueCookieAccessToken
    \/ UserGuard
    \/ CookieGuard
    \/ RefreshTokenCookie
    \/ LogoutUser

SpecTransports == Init /\ [][NextTransports]_vars

\* ------------------------------------------------------------------------
\* POST /auth/register -> AsyncAuthService.register_user.  The handler commits
\* twice: AsyncCRUDBase.create adds the user row and commits, then
\* register_user appends the default group and commits again.  Requests
\* interleave at these commits.
\* ------------------------------------------------------------------------
\* the UNIQUE constraint of users.email, as the store tests it at commit
email_unique_without_constraint(email) == TRUE

email_unique(email) == get_by_email(email) = {}

\* a row whose is_superuser takes no default and is set
new_user_row_superuser(email, hashed_password) ==
    [exists |-> TRUE, email |-> email, password |-> hashed_password,
     is_active |-> TRUE, is_superuser |-> TRUE, groups |-> {}, permissions |-> {}]

\* the row User(**obj_in) with the column defaults
new_user_row(email, hashed_password) ==
    [exists |-> TRUE, email |-> email, password |-> hashed_password,
     is_active |-> TRUE, is_superuser |-> FALSE, groups |-> {}, permissions |-> {}]

\* register_user up to the return of user_repository.create
\* (user_id stands for the uuid.uuid4() default of users.id)
register_create(email, password, dbfail) ==
    LET base == [BaseResult EXCEPT !.op = "register", !.email = email,
                                   !.password = password, !.dbfail = dbfail]
    IN
    IF dbfail
    THEN /\ last' = [base EXCEPT !.status = 500, !.exc = "DatabaseOperationException",
                                 !.detail = "Internal server error."]
         /\ UNCHANGED <<users, registering>>
    ELSE IF ~email_unique(email)
    THEN /\ last' = [base EXCEPT !.status = 409, !.exc = "ResourceAlreadyExistsException",
                                 !.detail = "User with these data already exists"]
         /\ UNCHANGED <<users, registering>>
    ELSE \E user_id \in UserIds :
         /\ ~users[user_id].exists
         /\ users' = [users EXCEPT ![user_id] = new_user_row(email, hash_password(password))]
         /\ registering' = registering \cup {user_id}
         /\ last' = [base EXCEPT !.op = "register_create", !.user = user_id]

\* register_user from user.groups.append(group) on; outcome "error": the
\* second commit raises, "cancelled": the request is cancelled at an await
\* after create has returned
register_attach_group(user_id, outcome) ==
    LET base == [BaseResult EXCEPT !.op = "register", !.user = user_id,
                                   !.email = users[user_id].email]
    IN
    /\ registering' = registering \ {user_id}
    /\ IF outcome = "ok"
       THEN /\ users' = [users EXCEPT ![user_id].groups = {"user"}]
            /\ last' = [base EXCEPT !.status = 201]
       ELSE IF outcome = "error"
       THEN /\ last' = [base EXCEPT !.status = 500, !.exc = "SQLAlchemyError", !.dbfail = TRUE,
                                    !.detail = "Internal server error."]
            /\ UNCHANGED users
       ELSE /\ last' = [base EXCEPT !.op = "register_cancelled", !.exc = "CancelledError"]
            /\ UNCHANGED users

RegisterCreate ==
    \E email \in Emails, password \in Passwords, dbfail \in BOOLEAN :
        /\ register_create(email, password, dbfail)
        /\ UNCHANGED <<now, nextJti, tokens, blacklist, groupPerms, loggedOut, rotated, auth_group,
                       cleanup_task, sessions>>

RegisterAttachGroup ==
    \E user_id \in registering, outcome \in {"ok", "error", "cancelled"} :
        /\ register_attach_group(user_id, outcome)
        /\ UNCHANGED <<now, nextJti, tokens, blacklist, groupPerms, loggedOut, rotated, auth_group,
                       cleanup_task, sessions>>

\* a fresh deployment: the groups are seeded, no account exists yet
InitRegister ==
    /\ now = 0
    /\ nextJti = 1
    /\ tokens = {}
    /\ blacklist = {}
    /\ users = [u \in UserIds |-> [new_user_row("", "") EXCEPT !.exists = FALSE]]
    /\ groupPerms = InitGroupPerms
    /\ last = InitLast
    /\ loggedOut = {}
    /\ rotated = {}
    /\ registering = {}
    /\ auth_group = InitAuthGroup
    /\ cleanup_task = InitCleanupTask
    /\ sessions = InitSessions

NextRegister ==
    \/ RegisterCreate
    \/ RegisterAttachGroup
    \/ LoginUser
    \/ DeactivateUser

SpecRegister == InitRegister /\ [][NextRegister]_vars

\* ------------------------------------------------------------------------
\* Password protection of the ORM: register_password_protection listens to
\* before_insert and before_update of every model with a password column.
\* A value written to the column is <<"plain", p>> for the text p or the
\* output of hash_password.
\* ------------------------------------------------------------------------
PasswordValues == {<<"plain", p>> : p \in Passwords} \cup {hash_password(p) : p \in Passwords}

\* bcrypt_pattern.match(target.password)
bcrypt_pattern_match(value) == value[1] = "bcrypt"

\* the body of the coroutine function before_insert_or_update
rehash_unless_hashed(value) ==
    IF bcrypt_pattern_match(value) THEN value ELSE hash_password(value[2])

\* target.password after the mapper event has been dispatched.  The listener
\* registered is the coroutine function itself: the ORM calls it as a plain
\* function, receives a coroutine object and drops it, so its body never runs.
before_insert_or_update(value) == value

\* session.add(User(email, password)); commit
persist_user(email, value, dbfail) ==
    LET base == [BaseResult EXCEPT !.op = "persist_user", !.email = email,
                                   !.dbfail = dbfail]
    IN
    IF dbfail \/ ~email_unique(email)
    THEN /\ last' = [base EXCEPT !.status = 500, !.exc = "SQLAlchemyError"]
         /\ UNCHANGED users
    ELSE \E user_id \in UserIds :
         /\ ~users[user_id].exists
         /\ users' = [users EXCEPT ![user_id] =
                                       new_user_row(email, before_insert_or_update(value))]
         /\ last' = [base EXCEPT !.status = 200, !.user = user_id]

\* user.password = value; commit
persist_password(user_id, value) ==
    /\ users[user_id].exists
    /\ users' = [users EXCEPT ![user_id].password = before_insert_or_update(value)]
    /\ last' = [BaseResult EXCEPT !.op = "persist_password", !.status = 200,
                                  !.user = user_id]

PersistUser ==
    \E email \in Emails, value \in PasswordValues, dbfail \in BOOLEAN :
        /\ persist_user(email, value, dbfail)
        /\ UNCHANGED <<now, nextJti, tokens, blacklist, groupPerms, loggedOut, rotated,
                       registering, auth_group, cleanup_task, sessions>>

PersistPassword ==
    \E user_id \in UserIds, value \in PasswordValues :
        /\ persist_password(user_id, value)
        /\ UNCHANGED <<now, nextJti, tokens, blacklist, groupPerms, loggedOut, rotated,
                       registering, auth_group, cleanup_task, sessions>>

NextPassword ==
    \/ PersistUser
    \/ PersistPassword
    \/ DeactivateUser

SpecPassword == InitRegister /\ [][NextPassword]_vars

\* ------------------------------------------------------------------------
\* The permission resolver on its own: the account u1 holds any combination
\* of superuser flag, groups and direct grants, the groups any grants
\* ------------------------------------------------------------------------
InitPerm ==
    /\ now = 0
    /\ nextJti = 1
    /\ tokens = {}
    /\ blacklist = {}
    /\ \E su \in BOOLEAN, gs \in SUBSET Groups, ps \in SUBSET Codenames :
          users = [InitUsers EXCEPT !["u1"].is_superuser = su,
                                    !["u1"].groups = gs,
                                    !["u1"].permissions = ps]
    /\ groupPerms \in [Groups -> SUBSET Codenames]
    /\ last = InitLast
    /\ loggedOut = {}
    /\ rotated = {}
    /\ registering = {}
    /\ auth_group = InitAuthGroup
    /\ cleanup_task = InitCleanupTask
    /\ sessions = InitSessions

\* user.has_permission(codename) evaluated for a loaded account
HasPermission ==
    \E u \in UserIds, c \in Codenames :
        /\ last' = [BaseResult EXCEPT !.op = "has_permission", !.user = u,
                        !.need = [dep |-> "has_permission", codes |-> {c}, all |-> FALSE],
                        !.value = has_permission(users[u], c), !.status = 200]
        /\ UNCHANGED <<now, nextJti, tokens, blacklist, users, groupPerms, loggedOut, rotated, registering,
                       auth_group, cleanup_task, sessions>>

\* a request of an authenticated account to an endpoint that carries a
\* permission dependency
RequirePermission ==
    \E u \in UserIds, need \in Needs \ {NoNeed} :
        /\ users[u].exists /\ users[u].is_active
        /\ LET out == permission_dependency(users[u], need) IN
           last' = [BaseResult EXCEPT !.op = "require", !.user = u, !.need = need,
                        !.status = out.status, !.exc = out.exc, !.detail = out.detail]
        /\ UNCHANGED <<now, nextJti, tokens, blacklist, users, groupPerms, loggedOut, rotated, registering,
                       auth_group, cleanup_task, sessions>>

NextPerm ==
    \/ HasPermission
    \/ RequirePermission

SpecPerm == InitPerm /\ [][NextPerm]_vars

\* ------------------------------------------------------------------------
\* Group membership: POST and DELETE /users/{user_id}/groups ->
\* AsyncUserGroupService
\* ------------------------------------------------------------------------
\* the caller may manage memberships: superuser or "manage_user_groups"
may_manage_user_groups(current_user) ==
    current_user.is_superuser \/ has_permission(current_user, "manage_user_groups")

\* add_user_to_groups that loads and commits but appends nothing
add_user_to_groups_no_append(current_user, user_id, group_ids, dbfail) ==
    LET base == [BaseResult EXCEPT !.op = "add_groups", !.user = user_id,
                                   !.need = [dep |-> "groups", codes |-> group_ids,
                                             all |-> FALSE],
                                   !.dbfail = dbfail]
    IN
    IF ~may_manage_user_groups(users[current_user])
    THEN /\ last' = [base EXCEPT !.status = PermissionDeniedStatus,
                                 !.exc = "PermissionDeniedException"]
         /\ UNCHANGED users
    ELSE IF ~users[user_id].exists
    THEN /\ last' = [base EXCEPT !.status = 404, !.exc = "ResourceNotFoundException",
                                 !.detail = "User not found"]
         /\ UNCHANGED users
    ELSE IF dbfail
    THEN /\ last' = [base EXCEPT !.status = 500, !.exc = "DatabaseOperationException",
                                 !.detail = "Internal server error"]
         /\ UNCHANGED users
    ELSE /\ last' = [base EXCEPT !.status = 200]
         /\ UNCHANGED users

\* AsyncUserGroupService.add_user_to_groups (every group of the model exists,
\* so _get_groups_by_ids finds all of group_ids)
add_user_to_groups(current_user, user_id, group_ids, dbfail) ==
    LET base == [BaseResult EXCEPT !.op = "add_groups", !.user = user_id,
                                   !.need = [dep |-> "groups", codes |-> group_ids,
                                             all |-> FALSE],
                                   !.dbfail = dbfail]
    IN
    IF ~may_manage_user_groups(users[current_user])
    THEN /\ last' = [base EXCEPT !.status = PermissionDeniedStatus,
                                 !.exc = "PermissionDeniedException"]
         /\ UNCHANGED users
    ELSE IF ~users[user_id].exists
    THEN /\ last' = [base EXCEPT !.status = 404, !.exc = "ResourceNotFoundException",
                                 !.detail = "User not found"]
         /\ UNCHANGED users
    ELSE IF dbfail
    THEN /\ last' = [base EXCEPT !.status = 500, !.exc = "DatabaseOperationException",
                                 !.detail = "Internal server error"]
         /\ UNCHANGED users
    ELSE /\ users' = [users EXCEPT ![user_id].groups = @ \cup group_ids]
         /\ last' = [base EXCEPT !.status = 200]

\* AsyncUserGroupService.remove_user_from_groups: the same checks, then every
\* group of group_ids is taken out of the user's groups and committed
remove_user_from_groups(current_user, user_id, group_ids, dbfail) ==
    LET base == [BaseResult EXCEPT !.op = "remove_groups", !.user = user_id,
                                   !.need = [dep |-> "groups", codes |-> group_ids,
                                             all |-> FALSE],
                                   !.dbfail = dbfail]
    IN
    IF ~may_manage_user_groups(users[current_user])
    THEN /\ last' = [base EXCEPT !.status = PermissionDeniedStatus,
                                 !.exc = "PermissionDeniedException"]
         /\ UNCHANGED users
    ELSE IF ~users[user_id].exists
    THEN /\ last' = [base EXCEPT !.status = 404, !.exc = "ResourceNotFoundException",
                                 !.detail = "User not found"]
         /\ UNCHANGED users
    ELSE IF dbfail
    THEN /\ last' = [base EXCEPT !.status = 500, !.exc = "DatabaseOperationException",
                                 !.detail = "Internal server error"]
         /\ UNCHANGED users
    ELSE /\ users' = [users EXCEPT ![user_id].groups = @ \ group_ids]
         /\ last' = [base EXCEPT !.status = 200]

AddUserToGroups ==
    \E current_user \in UserIds, user_id \in UserIds,
       group_ids \in SUBSET Groups \ {{}}, dbfail \in BOOLEAN :
        /\ users[current_user].exists /\ users[current_user].is_active
        /\ add_user_to_groups(current_user, user_id, group_ids, dbfail)
        /\ UNCHANGED <<now, nextJti, tokens, blacklist, groupPerms, loggedOut, rotated,
                       registering, auth_group, cleanup_task, sessions>>

RemoveUserFromGroups ==
    \E current_user \in UserIds, user_id \in UserIds,
       group_ids \in SUBSET Groups \ {{}}, dbfail \in BOOLEAN :
        /\ users[current_user].exists /\ users[current_user].is_active
        /\ remove_user_from_groups(current_user, user_id, group_ids, dbfail)
        /\ UNCHANGED <<now, nextJti, tokens, blacklist, groupPerms, loggedOut, rotated,
                       registering, auth_group, cleanup_task, sessions>>

\* the seeded accounts; u1 holds any direct grants, the groups any grants
InitGroups ==
    /\ now = 0
    /\ nextJti = 1
    /\ tokens = {}
    /\ blacklist = {}
    /\ \E ps \in SUBSET Codenames : users = [InitUsers EXCEPT !["u1"].permissions = ps]
    /\ groupPerms \in [Groups -> SUBSET Codenames]
    /\ last = InitLast
    /\ loggedOut = {}
    /\ rotated = {}
    /\ registering = {}
    /\ auth_group = InitAuthGroup
    /\ cleanup_task = InitCleanupTask
    /\ sessions = InitSessions

NextGroups ==
    \/ AddUserToGroups
    \/ RemoveUserFromGroups
    \/ HasPermission

SpecGroups == InitGroups /\ [][NextGroups]_vars

\* ------------------------------------------------------------------------
\* Group administration: POST, PUT and DELETE /groups -> AsyncGroupService
\* ------------------------------------------------------------------------
\* the names delete_group refuses to delete
SystemGroupNames == {"admin", "user", "owner", "visitor"}

may_manage_groups(current_user) ==
    current_user.is_superuser \/ has_permission(current_user, "manage_groups")

\* _check_name_exists(name, exclude_id); exclude_id = 0 stands for None
check_name_exists(name, exclude_id) ==
    \E id \in GroupIds \ {exclude_id} : auth_group[id].exists /\ auth_group[id].name = name

\* the membership and permission rows of a seeded group go with the group
GroupKey(group_id) == IF group_id = 1 THEN "admin" ELSE IF group_id = 2 THEN "user" ELSE ""

create_group(current_user, name, dbfail) ==
    LET base == [BaseResult EXCEPT !.op = "create_group", !.detail = name, !.dbfail = dbfail]
    IN
    IF ~may_manage_groups(users[current_user])
    THEN /\ last' = [base EXCEPT !.status = PermissionDeniedStatus,
                                 !.exc = "PermissionDeniedException"]
         /\ UNCHANGED auth_group
    ELSE IF check_name_exists(name, 0)
    THEN /\ last' = [base EXCEPT !.status = 409, !.exc = "ResourceAlreadyExistsException"]
         /\ UNCHANGED auth_group
    ELSE IF dbfail
    THEN /\ last' = [base EXCEPT !.status = 500, !.exc = "DatabaseOperationException"]
         /\ UNCHANGED auth_group
    ELSE \E id \in GroupIds \ SystemGroupIds :
         /\ ~auth_group[id].exists
         /\ auth_group' = [auth_group EXCEPT ![id] = [exists |-> TRUE, name |-> name]]
         /\ last' = [base EXCEPT !.status = 201, !.count = id]

\* name = "" stands for a GroupUpdate without a name
update_group(current_user, group_id, name, dbfail) ==
    LET base == [BaseResult EXCEPT !.op = "update_group", !.count = group_id,
                                   !.detail = name, !.dbfail = dbfail]
    IN
    IF ~may_manage_groups(users[current_user])
    THEN /\ last' = [base EXCEPT !.status = PermissionDeniedStatus,
                                 !.exc = "PermissionDeniedException"]
         /\ UNCHANGED auth_group
    ELSE IF ~auth_group[group_id].exists
    THEN /\ last' = [base EXCEPT !.status = 404, !.exc = "ResourceNotFoundException"]
         /\ UNCHANGED auth_group
    ELSE IF name # "" /\ name # auth_group[group_id].name /\ check_name_exists(name, group_id)
    THEN /\ last' = [base EXCEPT !.status = 409, !.exc = "ResourceAlreadyExistsException"]
         /\ UNCHANGED auth_group
    ELSE IF dbfail
    THEN /\ last' = [base EXCEPT !.status = 500, !.exc = "DatabaseOperationException"]
         /\ UNCHANGED auth_group
    ELSE /\ auth_group' = [auth_group EXCEPT ![group_id].name = IF name # "" THEN name ELSE @]
         /\ last' = [base EXCEPT !.status = 200]

delete_group(current_user, group_id, dbfail) ==
    LET base == [BaseResult EXCEPT !.op = "delete_group", !.count = group_id,
                                   !.dbfail = dbfail]
    IN
    IF ~may_manage_groups(users[current_user])
    THEN /\ last' = [base EXCEPT !.status = PermissionDeniedStatus,
                                 !.exc = "PermissionDeniedException"]
         /\ UNCHANGED <<auth_group, users, groupPerms>>
    ELSE IF ~auth_group[group_id].exists
    THEN /\ last' = [base EXCEPT !.status = 404, !.exc = "ResourceNotFoundException"]
         /\ UNCHANGED <<auth_group, users, groupPerms>>
    ELSE IF auth_group[group_id].name \in SystemGroupNames
    THEN /\ last' = [base EXCEPT !.status = PermissionDeniedStatus,
                                 !.exc = "PermissionDeniedException",
                                 !.detail = "Cannot delete system group"]
         /\ UNCHANGED <<auth_group, users, groupPerms>>
    ELSE IF dbfail
    THEN /\ last' = [base EXCEPT !.status = 500, !.exc = "DatabaseOperationException"]
         /\ UNCHANGED <<auth_group, users, groupPerms>>
    ELSE /\ auth_group' = [auth_group EXCEPT ![group_id] = NoGroupRow]
         /\ groupPerms' = [g \in Groups |-> IF g = GroupKey(group_id) THEN {}
                                             ELSE groupPerms[g]]
         /\ users' = [u \in UserIds |->
                          [users[u] EXCEPT !.groups = @ \ {GroupKey(group_id)}]]
         /\ last' = [base EXCEPT !.status = 200]

CreateGroup ==
    \E current_user \in UserIds, name \in GroupNames, dbfail \in BOOLEAN :
        /\ users[current_user].exists /\ users[current_user].is_active
        /\ create_group(current_user, name, dbfail)
        /\ UNCHANGED <<now, nextJti, tokens, blacklist, users, groupPerms, loggedOut, rotated,
                       registering, cleanup_task, sessions>>

UpdateGroup ==
    \E current_user \in UserIds, group_id \in GroupIds, name \in GroupNames \cup {""},
       dbfail \in BOOLEAN :
        /\ users[current_user].exists /\ users[current_user].is_active
        /\ update_group(current_user, group_id, name, dbfail)
        /\ UNCHANGED <<now, nextJti, tokens, blacklist, users, groupPerms, loggedOut, rotated,
                       registering, cleanup_task, sessions>>

DeleteGroup ==
    \E current_user \in UserIds, group_id \in GroupIds, dbfail \in BOOLEAN :
        /\ users[current_user].exists /\ users[current_user].is_active
        /\ delete_group(current_user, group_id, dbfail)
        /\ UNCHANGED <<now, nextJti, tokens, blacklist, loggedOut, rotated, registering, cleanup_task,
                       sessions>>

NextGroupAdmin ==
    \/ CreateGroup
    \/ UpdateGroup
    \/ DeleteGroup

SpecGroupAdmin == Init /\ [][NextGroupAdmin]_vars

\* ------------------------------------------------------------------------
\* The background task: lifespan and periodic_cleanup (main.py).  The event
\* loop runs one task at a time, so a step of the loop goes from one await
\* that suspends to the next; requests and the shutdown run only while the
\* task is suspended.
\* ------------------------------------------------------------------------
\* one pass from the top of the loop into cleanup_token_blacklist.
\* outcome "raise": the call raises before any await suspends (the import of
\* get_db_context, which database.py does not define, or the opening of the
\* session); except Exception logs and the loop goes round.
\* outcome "suspend": the call reaches the await of cleanup_expired.
periodic_cleanup(outcome) ==
    /\ cleanup_task.pc = "running"
    /\ cleanup_task.attempts < MaxAttempts
    /\ IF outcome = "raise"
       THEN /\ cleanup_task' = [cleanup_task EXCEPT !.attempts = @ + 1, !.slept = FALSE]
            /\ last' = [BaseResult EXCEPT !.op = "cleanup", !.exc = "ImportError",
                                          !.count = cleanup_task.attempts + 1]
       ELSE /\ cleanup_task' = [cleanup_task EXCEPT !.pc = "pruning", !.attempts = @ + 1,
                                                    !.slept = FALSE]
            /\ last' = [BaseResult EXCEPT !.op = "cleanup_begin",
                                          !.count = cleanup_task.attempts + 1]
    /\ UNCHANGED blacklist

\* the await inside cleanup_token_blacklist returns: cleanup_expired runs to
\* its end; on success the loop goes to sleep, on DatabaseOperationException
\* except Exception logs and the loop goes round
periodic_cleanup_pruned(dbfail) ==
    /\ cleanup_task.pc = "pruning"
    /\ ~cleanup_task.cancel
    /\ cleanup_expired(dbfail)
    /\ cleanup_task' = [cleanup_task EXCEPT !.pc = IF dbfail THEN "running" ELSE "sleeping"]

\* asyncio.sleep(24 * 60 * 60) returns
periodic_cleanup_woken ==
    /\ cleanup_task.pc = "sleeping"
    /\ ~cleanup_task.cancel
    /\ cleanup_task' = [cleanup_task EXCEPT !.pc = "running", !.slept = TRUE]
    /\ last' = [BaseResult EXCEPT !.op = "cleanup_woken"]
    /\ UNCHANGED blacklist

\* CancelledError is raised at the await the task is suspended at; it is not
\* an Exception nor an SQLAlchemyError, so it reaches except CancelledError:
\* break
periodic_cleanup_cancelled ==
    /\ cleanup_task.cancel
    /\ cleanup_task.pc \in {"pruning", "sleeping"}
    /\ cleanup_task' = [cleanup_task EXCEPT !.pc = "done"]
    /\ last' = [BaseResult EXCEPT !.op = "cleanup_cancelled", !.exc = "CancelledError"]
    /\ UNCHANGED blacklist

\* lifespan after yield: app.state.cleanup_task.cancel()
lifespan_shutdown ==
    /\ cleanup_task.pc \in {"pruning", "sleeping"}
    /\ ~cleanup_task.cancel
    /\ cleanup_task' = [cleanup_task EXCEPT !.cancel = TRUE]
    /\ last' = [BaseResult EXCEPT !.op = "shutdown"]
    /\ UNCHANGED blacklist

PeriodicCleanup ==
    \E outcome \in {"raise", "suspend"} :
        /\ periodic_cleanup(outcome)
        /\ UNCHANGED <<now, nextJti, tokens, users, groupPerms, loggedOut, rotated, registering,
                       auth_group, sessions>>

PeriodicCleanupPruned ==
    \E dbfail \in BOOLEAN :
        /\ periodic_cleanup_pruned(dbfail)
        /\ UNCHANGED <<now, nextJti, tokens, users, groupPerms, loggedOut, rotated, registering,
                       auth_group, sessions>>

PeriodicCleanupWoken ==
    /\ periodic_cleanup_woken
    /\ UNCHANGED <<now, nextJti, tokens, users, groupPerms, loggedOut, rotated, registering,
                   auth_group, sessions>>

PeriodicCleanupCancelled ==
    /\ periodic_cleanup_cancelled
    /\ UNCHANGED <<now, nextJti, tokens, users, groupPerms, loggedOut, rotated, registering,
                   auth_group, sessions>>

LifespanShutdown ==
    /\ lifespan_shutdown
    /\ UNCHANGED <<now, nextJti, tokens, users, groupPerms, loggedOut, rotated, registering,
                   auth_group, sessions>>

\* a request is served only while the task is suspended or has ended
Served == cleanup_task.pc # "running"

NextCleanup ==
    \/ PeriodicCleanup
    \/ PeriodicCleanupPruned
    \/ PeriodicCleanupWoken
    \/ PeriodicCleanupCancelled
    \/ LifespanShutdown
    \/ Served /\ cleanup_task.pc # "done" /\ Tick
    \/ Served /\ cleanup_task.pc # "done" /\ LoginUser
    \/ Served /\ cleanup_task.pc # "done" /\ LogoutUser
    \/ Served /\ cleanup_task.pc # "done" /\ UserGuard

SpecCleanup == Init /\ [][NextCleanup]_vars

\* ------------------------------------------------------------------------
\* PUT /users/{user_id} (admin) -> AsyncUserService.update_user, one
\* AsyncSession per request.  The unit of work emits UPDATE users SET ... for
\* the attributes whose value differs from the loaded one, and only those.
\* ------------------------------------------------------------------------
UserUpdates ==
    [email : {<<>>} \cup {<<e>> : e \in Emails},
     is_active : {<<>>, <<TRUE>>, <<FALSE>>},
     is_superuser : {<<>>, <<TRUE>>, <<FALSE>>}]

\* the assignments of update_user on the loaded object
set_attributes(user, data) ==
    [user EXCEPT !.email = IF data.email # <<>> /\ data.email[1] # user.email
                           THEN data.email[1] ELSE @,
                 !.is_active = IF data.is_active # <<>> THEN data.is_active[1] ELSE @,
                 !.is_superuser = IF data.is_superuser # <<>> THEN data.is_superuser[1] ELSE @]

\* a flush that writes every column of the loaded object
flush_all_columns(row, loaded, pending) == pending

\* the UPDATE of the flush applied to the stored row: the changed columns
flush(row, loaded, pending) ==
    [row EXCEPT !.email = IF pending.email # loaded.email THEN pending.email ELSE @,
                !.is_active = IF pending.is_active # loaded.is_active
                              THEN pending.is_active ELSE @,
                !.is_superuser = IF pending.is_superuser # loaded.is_superuser
                                 THEN pending.is_superuser ELSE @]

\* update_user up to db.add(user): the row is loaded, the duplicate check is
\* made and the attributes are set
update_user_load(s, user_id, data) ==
    LET base == [BaseResult EXCEPT !.op = "update_user", !.user = user_id]
        closed == [sessions[s] EXCEPT !.pc = "done", !.user = user_id, !.data = data]
    IN
    /\ sessions[s].pc = "idle"
    /\ IF ~users[user_id].exists
       THEN /\ last' = [base EXCEPT !.status = 404, !.exc = "ResourceNotFoundException",
                                    !.detail = "User not found"]
            /\ sessions' = [sessions EXCEPT ![s] = [closed EXCEPT !.status = 404]]
       ELSE IF /\ data.email # <<>>
               /\ data.email[1] # users[user_id].email
               /\ \E u \in UserIds \ {user_id} :
                      users[u].exists /\ users[u].email = data.email[1]
       THEN /\ last' = [base EXCEPT !.status = 409, !.exc = "ResourceAlreadyExistsException",
                                    !.detail = "Email already in use."]
            /\ sessions' = [sessions EXCEPT ![s] = [closed EXCEPT !.status = 409]]
       ELSE /\ last' = [base EXCEPT !.op = "update_user_load"]
            /\ sessions' = [sessions EXCEPT ![s] =
                    [pc |-> "loaded", user |-> user_id, data |-> data,
                     loaded |-> users[user_id],
                     pending |-> set_attributes(users[user_id], data),
                     stale |-> FALSE, status |-> 0]]
    /\ UNCHANGED users

\* update_user from db.commit() on: flush, commit, refresh; the UNIQUE
\* constraint on users.email is checked by the flush
update_user_commit(s) ==
    LET user_id == sessions[s].user
        base == [BaseResult EXCEPT !.op = "update_user", !.user = user_id]
        row == flush(users[user_id], sessions[s].loaded, sessions[s].pending)
    IN
    /\ sessions[s].pc = "loaded"
    /\ IF ~users[user_id].exists
       THEN /\ last' = [base EXCEPT !.status = 500, !.exc = "StaleDataError"]
            /\ sessions' = [sessions EXCEPT ![s].pc = "done", ![s].status = 500]
            /\ UNCHANGED users
       ELSE IF \E u \in UserIds \ {user_id} : users[u].exists /\ users[u].email = row.email
       THEN /\ last' = [base EXCEPT !.status = 500, !.exc = "IntegrityError"]
            /\ sessions' = [sessions EXCEPT ![s].pc = "done", ![s].status = 500]
            /\ UNCHANGED users
       ELSE /\ users' = [users EXCEPT ![user_id] = row]
            /\ last' = [base EXCEPT !.status = 200, !.email = row.email,
                                    !.value = row.is_superuser]
            /\ sessions' = [t \in SessionIds |->
                    IF t = s THEN [sessions[s] EXCEPT !.pc = "done", !.status = 200]
                    ELSE IF sessions[t].pc = "loaded" /\ sessions[t].user = user_id
                              /\ row # users[user_id]
                    THEN [sessions[t] EXCEPT !.stale = TRUE]
                    ELSE sessions[t]]

UpdateUserLoad ==
    \E s \in SessionIds, user_id \in Managed, data \in UserUpdates :
        /\ update_user_load(s, user_id, data)
        /\ UNCHANGED <<now, nextJti, tokens, blacklist, groupPerms, loggedOut, rotated,
                       registering, auth_group, cleanup_task>>

UpdateUserCommit ==
    \E s \in SessionIds :
        /\ update_user_commit(s)
        /\ UNCHANGED <<now, nextJti, tokens, blacklist, groupPerms, loggedOut, rotated,
                       registering, auth_group, cleanup_task>>

\* one account is registered, the other address is free
InitUpdate ==
    /\ now = 0
    /\ nextJti = 1
    /\ tokens = {}
    /\ blacklist = {}
    /\ users = [InitUsers EXCEPT !["u2"] = NoRow]
    /\ groupPerms = InitGroupPerms
    /\ last = InitLast
    /\ loggedOut = {}
    /\ rotated = {}
    /\ registering = {}
    /\ auth_group = InitAuthGroup
    /\ cleanup_task = InitCleanupTask
    /\ sessions = InitSessions

NextUpdate ==
    \/ UpdateUserLoad
    \/ UpdateUserCommit

SpecUpdate == InitUpdate /\ [][NextUpdate]_vars

\* ------------------------------------------------------------------------
\* Token payloads with additional claims: AuthService.create_token_payload
\* and JWTCookieManager.create_access_token, and the checks applied to them
\* ------------------------------------------------------------------------
NoClaims == [k \in {} |-> k]

\* additional_claims / extras a caller may hand over
ExtraClaims ==
    {NoClaims, [role |-> "admin"], [sub |-> "u2"], [type |-> "refresh"],
     [exp |-> MaxTime + ClientTtl + 1], [jti |-> 0]}

\* dict.update
payload_update(payload, claims) ==
    [k \in DOMAIN payload \cup DOMAIN claims |->
        IF k \in DOMAIN claims THEN claims[k] ELSE payload[k]]

\* int(naive.timestamp()): a naive datetime is read as local time
naive_timestamp(naive, tz) == naive - tz

\* jwt.encode with the service's secret
jwt_encode(payload) == payload_update(payload, [signed |-> TRUE])

\* AuthService.create_token_payload: expire = datetime.utcnow() + expires_delta
create_token_payload(subject, expires_delta, token_type, additional_claims, token_id, tz) ==
    payload_update([sub |-> subject, exp |-> naive_timestamp(now + expires_delta, tz),
                    type |-> token_type, jti |-> token_id],
                   additional_claims)

\* JWTCookieManager.create_access_token: expire = datetime.now(timezone.utc) +
\* expires_delta
jwt_cookies_create_access_token(subject, extras, expires_delta, token_id) ==
    payload_update([sub |-> subject, exp |-> now + expires_delta, iat |-> now,
                    type |-> "access", jti |-> token_id],
                   extras)

\* AuthService.is_token_valid: datetime.fromtimestamp(exp) < datetime.utcnow()
is_token_valid(token_payload, expected_type, tz) ==
    IF ~({"sub", "exp", "type", "jti"} \subseteq DOMAIN token_payload)
    THEN FALSE
    ELSE IF token_payload.type # expected_type
    THEN FALSE
    ELSE IF local_naive(token_payload.exp, tz) < now
    THEN FALSE
    ELSE TRUE

CreateTokenPayload ==
    \E subject \in UserIds, expires_delta \in 0..RefreshTtl,
       token_type \in {"user", "refresh"}, additional_claims \in ExtraClaims,
       tz \in TzOffsets :
        /\ nextJti < MaxJti
        /\ nextJti' = nextJti + 1
        /\ last' = [BaseResult EXCEPT
                        !.op = "create_token_payload", !.user = subject,
                        !.detail = token_type, !.count = expires_delta,
                        !.issued = {jwt_encode(create_token_payload(subject, expires_delta,
                                        token_type, additional_claims, nextJti, tz))}]
        /\ UNCHANGED <<now, tokens, blacklist, users, groupPerms, loggedOut, rotated,
                       registering, auth_group, cleanup_task, sessions>>

CookieCreateAccessToken ==
    \E subject \in UserIds, expires_delta \in 0..RefreshTtl, extras \in ExtraClaims :
        /\ nextJti < MaxJti
        /\ nextJti' = nextJti + 1
        /\ last' = [BaseResult EXCEPT
                        !.op = "create_access_token", !.user = subject,
                        !.detail = "access", !.count = expires_delta,
                        !.issued = {jwt_encode(jwt_cookies_create_access_token(subject, extras,
                                        expires_delta, nextJti))}]
        /\ UNCHANGED <<now, tokens, blacklist, users, groupPerms, loggedOut, rotated,
                       registering, auth_group, cleanup_task, sessions>>

\* the token just issued is presented: to the bearer guard, and its payload
\* to is_token_valid with the type it was issued for
ValidatePayload ==
    \E tok \in last.issued, tz \in TzOffsets :
        /\ last.op \in {"create_token_payload", "create_access_token", "validate"}
        /\ last' = [Res("validate", tok, get_permissions_current_user(tok, FALSE))
                        EXCEPT !.user = last.user, !.detail = last.detail,
                               !.count = last.count, !.issued = last.issued,
                               !.value = is_token_valid(tok, last.detail, tz)]
        /\ UNCHANGED <<now, nextJti, tokens, blacklist, users, groupPerms, loggedOut, rotated,
                       registering, auth_group, cleanup_task, sessions>>

NextCodec ==
    \/ Tick
    \/ CreateTokenPayload
    \/ CookieCreateAccessToken
    \/ ValidatePayload

SpecCodec == Init /\ [][NextCodec]_vars

\* ------------------------------------------------------------------------
\* Properties
\* ------------------------------------------------------------------------
\* the sub claim of a token names an account that exists and is active
Resolves(tok) ==
    /\ tok.sub \in UserIds
    /\ users[tok.sub].exists
    /\ users[tok.sub].is_active

\* the permission codenames an account holds directly or through its groups
UnionOfGrants(u) ==
    users[u].permissions \cup UNION {groupPerms[g] : g \in users[u].groups}

C2_TokenTypesNotInterchangeable ==
    /\ (/\ last.op = "user_guard"
        /\ ~last.dbfail
        /\ last.tok.signed
        /\ last.tok.type \in {"refresh", "client"}) => last.status = 401
    /\ (/\ last.op = "client_guard"
        /\ ~last.dbfail
        /\ last.tok.type # "client") => last.status = 401

\* C3: when the lookup in the revocation list fails with a storage error, the
\* guard does not let the request through.
C3_BlacklistFailureDenies ==
    (/\ last.op = "user_guard"
     /\ last.dbfail
     /\ last.tok.jti # 0) => last.status # 200

C3_Witness ==
    /\ last.op = "user_guard"
    /\ last.dbfail
    /\ last.tok.jti # 0
    /\ last.exc = "DatabaseOperationException"
    /\ last.detail = "Error checking token blacklist"
    /\ get_permissions_current_user(last.tok, FALSE).status = 200

\* C4: a token whose logout succeeded (bearer or cookie transport) stays in
\* the revocation list for as long as it passes the expiry check: no run of
\* the prune removes its entry earlier.
C4_RevokedUntilNaturalExpiry ==
    \A t \in loggedOut : jwt_decode_ok(t) => is_blacklisted(t.jti)

\* C5: the user guard never lets through a token whose sub does not name an
\* existing, active account, and answers 401 whenever the storage could be
\* read.
C5_InactiveOrMissingRejected ==
    (last.op = "user_guard" /\ ~Resolves(last.tok)) =>
        /\ last.status # 200
        /\ (~last.dbfail => last.status = 401)

C5_Witness ==
    /\ last.op = "user_guard"
    /\ last.tok.type = "user"
    /\ last.tok.sub = "u1"
    /\ ~users["u1"].is_active
    /\ last.status = 401
    /\ last.detail \in {"Inactive user.", "User not found."}

\* C6: a refresh call that presents a refresh token whose jti is in the
\* revocation list is rejected and issues no tokens.
C6_BlacklistedRefreshRejected ==
    (last.op = "refresh" /\ last.tok.jti # 0 /\ is_blacklisted(last.tok.jti)) =>
        /\ last.status # 200
        /\ last.issued = {}

\* C7: revoking is idempotent: a logout with a valid token that carries a jti
\* answers 200 whether or not the jti is already revoked (storage working),
\* and the jti is in the revocation list afterwards.
C7_LogoutIdempotent ==
    (/\ last.op = "logout"
     /\ ~last.dbfail
     /\ jwt_decode_ok(last.tok)
     /\ last.tok.jti # 0) =>
        /\ last.status = 200
        /\ is_blacklisted(last.tok.jti)

\* C8: has_permission(principal, codename) is true exactly when the principal
\* is a superuser or the codename is in the union of its direct grants and
\* the grants of its groups.
C8_HasPermissionIffUnion ==
    last.op = "has_permission" =>
        \A c \in last.need.codes :
            last.value <=> (users[last.user].is_superuser \/ c \in UnionOfGrants(last.user))

C8_Witness ==
    /\ last.op = "has_permission"
    /\ ~users[last.user].is_superuser
    /\ last.value
    /\ \E c \in last.need.codes :
          /\ c \notin users[last.user].permissions
          /\ c \in UnionOfGrants(last.user)

\* C9: when an endpoint requires permissions the authenticated principal
\* lacks (one of them where all are required, all of them where one
\* suffices), the permission dependency answers 403: never 401, never 200.
C9_MissingPermissionForbidden ==
    (/\ last.op = "require"
     /\ ~users[last.user].is_superuser
     /\ IF last.need.all
        THEN \E c \in last.need.codes : c \notin UnionOfGrants(last.user)
        ELSE \A c \in last.need.codes : c \notin UnionOfGrants(last.user)) =>
        last.status = 403

C9_Witness ==
    /\ last.op = "require"
    /\ last.need.dep = "require_permission_or_superuser"
    /\ last.status = 403
    /\ last.exc = "PermissionDeniedException"
    /\ UnionOfGrants(last.user) # {}

\* C10: a login with the correct e-mail and password of an account whose
\* is_active is false answers "Inactive user" (401) and issues no token.
C10_InactiveLoginIssuesNothing ==
    (/\ last.op = "login"
     /\ \E u \in UserIds :
          /\ users[u].exists
          /\ users[u].email = last.email
          /\ verify_password(last.password, users[u].password)
          /\ ~users[u].is_active) =>
        /\ last.status = 401
        /\ last.detail = "Inactive user"
        /\ last.issued = {}

C10_Witness ==
    /\ last.op = "login"
    /\ last.email = "a@x"
    /\ verify_password(last.password, users["u1"].password)
    /\ users["u1"].exists
    /\ ~users["u1"].is_active
    /\ last.detail = "Inactive user"
    /\ tokens # {}

\* ------------------------------------------------------------------------
\* C11: a login whose email is not registered, or whose email is registered
\* but whose password does not match, is answered with the same error:
\* status 401 and detail "Incorrect email or password".
\* authenticate tests is_active before the password, so a registered but
\* deactivated account with a wrong password is answered "Inactive user".
\* ------------------------------------------------------------------------
C11_LoginErrorUniform ==
    (/\ last.op = "login"
     /\ \/ get_by_email(last.email) = {}
        \/ \E u \in get_by_email(last.email) :
               ~verify_password(last.password, users[u].password))
    => /\ last.status = 401
       /\ last.exc = "InvalidCredentialsException"
       /\ last.detail = "Incorrect email or password"

\* ------------------------------------------------------------------------
\* C12: a refresh call that presents a token whose type claim is not
\* "refresh" (an access token, a client token) fails with
\* InvalidCredentialsException (401) and issues no token.
\* ------------------------------------------------------------------------
C12_NonRefreshTypeRejected ==
    (last.op = "refresh" /\ last.tok.type # "refresh") =>
        /\ last.status = 401
        /\ last.exc = "InvalidCredentialsException"
        /\ last.issued = {}

\* a client token and an access token, each validly signed and unexpired,
\* have been presented to refresh and refused for their type
C12_Witness ==
    /\ last.op = "refresh"
    /\ last.tok.type = "client"
    /\ jwt_decode_ok(last.tok)
    /\ last.detail = "Invalid refresh token type."
    /\ \E t \in tokens : t.type = "user" /\ jwt_decode_ok(t)

\* ------------------------------------------------------------------------
\* C13: refresh looks the principal up again: when the account named by the
\* token's sub is missing or has is_active = false at the time of the call,
\* the call does not succeed and issues no token, however valid the refresh
\* token itself is.
\* ------------------------------------------------------------------------
C13_RefreshRechecksPrincipal ==
    (last.op = "refresh" /\ ~Resolves(last.tok)) =>
        /\ last.status # 200
        /\ last.issued = {}

\* a validly signed, unexpired refresh token of an account that has been
\* deactivated or deleted since the login was refused for that reason
C13_Witness ==
    /\ last.op = "refresh"
    /\ last.tok.type = "refresh"
    /\ jwt_decode_ok(last.tok)
    /\ ~Resolves(last.tok)
    /\ last.status = 401
    /\ last.detail = "User not found or inactive."

\* ------------------------------------------------------------------------
\* C14: a successful refresh rotates: it returns exactly one access token
\* and one refresh token, both unknown before the call; the jti of the new
\* refresh token differs from the presented one and from every jti issued
\* before, and so does the jti of the new access token (which therefore
\* differs from the access token of the login).
\* ------------------------------------------------------------------------
jtis_issued == {t.jti : t \in tokens}

C14_RefreshStep ==
    (last' # last /\ last'.op = "refresh" /\ last'.status = 200) =>
        \E a, r \in last'.issued :
            /\ last'.issued = {a, r}
            /\ a.type = "user" /\ r.type = "refresh"
            /\ a.sub = last'.tok.sub /\ r.sub = last'.tok.sub
            /\ r.jti # last'.tok.jti
            /\ a.jti # r.jti
            /\ a.jti \notin jtis_issued /\ r.jti \notin jtis_issued
            /\ a \notin tokens /\ r \notin tokens

C14_RefreshRotates == [][C14_RefreshStep]_vars

\* a refresh has succeeded next to the token pair of the login
C14_Witness ==
    /\ last.op = "refresh"
    /\ last.status = 200
    /\ last.tok \in tokens
    /\ \E a \in tokens \ last.issued : a.type = "user" /\ a.sub = last.tok.sub
    /\ \E r \in last.issued : r.type = "refresh" /\ r.jti # last.tok.jti

\* ------------------------------------------------------------------------
\* C15: refresh tokens are not single-use. A refresh call presenting a
\* validly signed, unexpired refresh token of an active account succeeds
\* whenever the store answers, whether or not that token has been rotated
\* before (so two calls with the same token, in either order, both
\* succeed); and a rotation never blacklists the token it was given: every
\* blacklist row stems from a logout.
\* ------------------------------------------------------------------------
C15_NoSingleUse ==
    /\ (/\ last.op = "refresh"
        /\ jwt_decode_ok(last.tok)
        /\ last.tok.type = "refresh"
        /\ Resolves(last.tok)
        /\ ~last.dbfail)
       => last.status = 200
    /\ \A e \in blacklist : \E t \in loggedOut : t.jti = e.jti

\* the same refresh token has been rotated twice and is still not blacklisted
C15_Witness ==
    /\ last.op = "refresh"
    /\ last.status = 200
    /\ \E p, q \in rotated :
          /\ p # q
          /\ p[1] = last.tok.jti /\ q[1] = last.tok.jti
          /\ \E r \in last.issued : r.type = "refresh" /\ r.jti = q[2]
    /\ ~is_blacklisted(last.tok.jti)

\* ------------------------------------------------------------------------
\* C16: every successful login returns one access token and one refresh
\* token; each carries the id of the authenticated account as sub and a jti
\* that is present and differs from the other's and from the jti of every
\* token issued before.
\* ------------------------------------------------------------------------
C16_LoginStep ==
    (last' # last /\ last'.op = "login" /\ last'.status = 200) =>
        \E a, r \in last'.issued :
            /\ last'.issued = {a, r}
            /\ a.type = "user" /\ r.type = "refresh"
            /\ get_by_email(last'.email) = {last'.user}
            /\ a.sub = last'.user /\ r.sub = last'.user
            /\ a.jti # 0 /\ r.jti # 0
            /\ a.jti # r.jti
            /\ a.jti \notin jtis_issued /\ r.jti \notin jtis_issued
            /\ \A p \in rotated : a.jti \notin {p[1], p[2]} /\ r.jti \notin {p[1], p[2]}

C16_LoginTokensFresh == [][C16_LoginStep]_vars

\* a second login of the same account, next to the tokens of the first
C16_Witness ==
    /\ last.op = "login"
    /\ last.status = 200
    /\ \E t \in tokens \ last.issued : t.sub = last.user /\ t.type = "user"
    /\ \A t \in last.issued : t.sub = last.user /\ t.jti # 0

\* ------------------------------------------------------------------------
\* C17: the cookie guard decides as the bearer guard does: whenever the
\* cookie guard answers a request that carries a token and whose queries
\* succeed, it accepts exactly if the bearer guard accepts the same token in
\* the same store state, and it answers 401 otherwise.
\* The cookie guard requires type "access", which login_user never issues,
\* and its "except Exception" turns its own 401s into 500.
\* ------------------------------------------------------------------------
C17_CookieStep ==
    (/\ last' # last
     /\ last'.op = "cookie_guard"
     /\ last'.tok # NoToken
     /\ ~last'.dbfail)
    => /\ last'.status \in {200, 401}
       /\ last'.status = get_permissions_current_user(last'.tok, FALSE).status

C17_CookieGuardAsBearerGuard == [][C17_CookieStep]_vars

\* ------------------------------------------------------------------------
\* C18: a cookie-authenticated request with an unsafe HTTP method (the POSTs
\* /auth-cookie/logout and /auth-cookie/refresh) is rejected unless the
\* CSRF header is present and equals the CSRF cookie.
\* POST /auth-cookie/refresh makes no CSRF check at all.
\* ------------------------------------------------------------------------
C18_UnsafeMethodNeedsCsrf ==
    (last.op \in {"cookie_logout", "cookie_refresh"} /\ ~last.csrf_ok) =>
        last.status \notin {200}

\* ------------------------------------------------------------------------
\* C19: register leaves no partial result: once no register call is in
\* flight for it, every persisted principal created by register is a member
\* of the default group "user" (in SpecRegister every account stems from
\* register).
\* register_user commits the user row first and the membership in a second
\* commit; a failure or cancellation in between leaves the row without it.
\* ------------------------------------------------------------------------
C19_RegisterAtomic ==
    \A u \in UserIds :
        (users[u].exists /\ u \notin registering) => "user" \in users[u].groups

\* ------------------------------------------------------------------------
\* C20: no two persisted principals ever share an email, however register
\* calls interleave; a register call whose email is taken when its insert
\* reaches the store is answered ResourceAlreadyExistsException (409) and
\* creates nothing; and of the register calls for one email at most one is
\* answered 201.
\* ------------------------------------------------------------------------
C20_RegisterStep ==
    /\ (/\ last' # last
        /\ last'.op = "register"
        /\ last'.user = ""
        /\ ~last'.dbfail
        /\ get_by_email(last'.email) # {})
       => /\ last'.status = 409
          /\ last'.exc = "ResourceAlreadyExistsException"
          /\ users' = users
          /\ registering' = registering
    /\ (last' # last /\ last'.op = "register" /\ last'.status = 201)
       => /\ get_by_email(last'.email) = {last'.user}
          /\ users'[last'.user].exists
          /\ \A v \in UserIds \ {last'.user} :
                 users'[v].exists => users'[v].email # last'.email

C20_EmailUnique ==
    /\ [][C20_RegisterStep]_vars
    /\ [](\A u, v \in UserIds :
            (u # v /\ users[u].exists /\ users[v].exists)
                => users[u].email # users[v].email)

\* two register calls for one email have overlapped: the first has committed
\* its row and is still in flight when the second is answered 409, and two
\* principals with different emails exist
C20_Witness ==
    /\ last.op = "register"
    /\ last.status = 409
    /\ \E u \in registering : users[u].email = last.email
    /\ \E u, v \in UserIds : u # v /\ users[u].exists /\ users[v].exists

\* ------------------------------------------------------------------------
\* C21: a successful register creates exactly one principal: the insert adds
\* one row, with the email given, is_active = true, is_superuser = false and
\* the hash of the password (never the password itself), and touches no
\* other row; the step that answers 201 adds the membership in the default
\* group "user" to that row and changes nothing else.
\* ------------------------------------------------------------------------
C21_RegisterStep ==
    /\ (last' # last /\ last'.op = "register_create") =>
          LET u == last'.user IN
          /\ ~users[u].exists
          /\ users'[u].exists
          /\ users'[u].email = last'.email
          /\ users'[u].is_active
          /\ ~users'[u].is_superuser
          /\ users'[u].password # last'.password
          /\ verify_password(last'.password, users'[u].password)
          /\ \A v \in UserIds \ {u} : users'[v] = users[v]
    /\ (last' # last /\ last'.op = "register" /\ last'.status = 201) =>
          LET u == last'.user IN
          /\ users[u].exists
          /\ users'[u] = [users[u] EXCEPT !.groups = {"user"}]
          /\ ~users'[u].is_superuser
          /\ users'[u].password \notin Passwords
          /\ \A v \in UserIds \ {u} : users'[v] = users[v]

C21_RegisterCreatesPrincipal == [][C21_RegisterStep]_vars

\* a register call has been answered 201 and its principal is active, no
\* superuser, holds a hashed password and is a member of "user"
C21_Witness ==
    /\ last.op = "register"
    /\ last.status = 201
    /\ users[last.user].exists
    /\ users[last.user].is_active
    /\ ~users[last.user].is_superuser
    /\ users[last.user].password \in {hash_password(p) : p \in Passwords}
    /\ users[last.user].groups = {"user"}

\* ------------------------------------------------------------------------
\* C22: whatever value is written to a principal's password column, on
\* insert or on update, the persisted password matches the pattern of the
\* hash algorithm's output.
\* The listener that would re-hash is a coroutine function that the ORM calls
\* without awaiting, so a plain value is persisted as written.
\* ------------------------------------------------------------------------
C22_PersistedPasswordHashed ==
    \A u \in UserIds : users[u].exists => bcrypt_pattern_match(users[u].password)

\* ------------------------------------------------------------------------
\* C23: group-derived permission follows the current membership.  Once a
\* user has been added to groups, has_permission is true for every
\* permission these groups hold; once the user has been removed from groups,
\* has_permission is false for every permission of these groups that the
\* user holds neither directly nor through a remaining group (superusers
\* aside); and every has_permission answer is computed from the membership
\* of that time.
\* ------------------------------------------------------------------------
C23_MembershipStep ==
    /\ (last' # last /\ last'.op = "add_groups" /\ last'.status = 200) =>
          \A g \in last'.need.codes :
              /\ g \in users'[last'.user].groups
              /\ \A c \in groupPerms[g] : has_permission(users'[last'.user], c)
    /\ (last' # last /\ last'.op = "remove_groups" /\ last'.status = 200) =>
          \A g \in last'.need.codes :
              /\ g \notin users'[last'.user].groups
              /\ \A c \in groupPerms[g] :
                    (/\ ~users[last'.user].is_superuser
                     /\ c \notin users[last'.user].permissions
                     /\ \A h \in users[last'.user].groups \ last'.need.codes :
                            c \notin groupPerms[h])
                    => ~has_permission(users'[last'.user], c)
    /\ (last' # last /\ last'.op = "has_permission" /\ ~users[last'.user].is_superuser) =>
          \A c \in last'.need.codes :
              (c \notin users[last'.user].permissions) =>
                  (last'.value <=> \E g \in users[last'.user].groups : c \in groupPerms[g])

C23_PermissionFollowsMembership == [][C23_MembershipStep]_vars

\* a user has been removed from a group it was a member of and has thereby
\* lost a permission of that group
C23_Witness ==
    /\ last.op = "remove_groups"
    /\ last.status = 200
    /\ \E g \in last.need.codes \cap InitUsers[last.user].groups :
          \E c \in groupPerms[g] : ~has_permission(users[last.user], c)

\* ------------------------------------------------------------------------
\* C24: the system groups cannot be removed: whatever create, update
\* (rename) and delete calls are made, by whatever caller (superusers
\* included), every group seeded as a system group is still in auth_group.
\* ------------------------------------------------------------------------
C24_SystemGroupsKept ==
    \A id \in SystemGroupIds : auth_group[id].exists

\* ------------------------------------------------------------------------
\* C25: the pruning loop is a cancellable background task.  Every pass of
\* the loop from its top ends at an await that suspends the task (inside the
\* prune run or in the sleep), where a cancellation is delivered and
\* requests are served; and once cleanup_task.cancel() has been called, the
\* next step of the task, sleeping or pruning, leaves the loop.
\* ------------------------------------------------------------------------
C25_LoopStep ==
    /\ (cleanup_task.pc = "running" /\ cleanup_task' # cleanup_task) =>
          cleanup_task'.pc \in {"pruning", "sleeping", "done"}
    /\ (cleanup_task.cancel /\ cleanup_task' # cleanup_task) =>
          cleanup_task'.pc = "done"

C30_AttemptStep ==
    (cleanup_task'.attempts = cleanup_task.attempts + 1) =>
        (cleanup_task.attempts = 0 \/ cleanup_task.slept)

C30_AttemptsSeparatedBySleep == [][C30_AttemptStep]_vars

\* ------------------------------------------------------------------------
\* C26: two updates of the same user through two sessions do not lose each
\* other's changes: when one session has committed an update that carries
\* only an email and the other one an update that carries only is_superuser,
\* the stored user has that email and that is_superuser, whatever the order
\* of the two loads and the two commits.
\* ------------------------------------------------------------------------
C26_NoLostUpdate ==
    \A a \in SessionIds : \A b \in SessionIds \ {a} :
        (/\ sessions[a].pc = "done" /\ sessions[a].status = 200
         /\ sessions[b].pc = "done" /\ sessions[b].status = 200
         /\ sessions[a].user = sessions[b].user
         /\ sessions[a].data.email # <<>>
         /\ sessions[a].data.is_active = <<>> /\ sessions[a].data.is_superuser = <<>>
         /\ sessions[b].data.is_superuser # <<>>
         /\ sessions[b].data.is_active = <<>> /\ sessions[b].data.email = <<>>)
        => /\ users[sessions[a].user].email = sessions[a].data.email[1]
           /\ users[sessions[a].user].is_superuser = sessions[b].data.is_superuser[1]

\* both sessions had loaded the row before either committed: the second
\* commit came from a session whose loaded row was out of date, and the user
\* has the new email and the new is_superuser
C26_Witness ==
    \E a \in SessionIds : \E b \in SessionIds \ {a} :
        /\ sessions[a].pc = "done" /\ sessions[a].status = 200
        /\ sessions[b].pc = "done" /\ sessions[b].status = 200
        /\ sessions[a].data = [NoUpdate EXCEPT !.email = <<"b@x">>]
        /\ sessions[b].data = [NoUpdate EXCEPT !.is_superuser = <<TRUE>>]
        /\ sessions[a].stale \/ sessions[b].stale
        /\ users[sessions[a].user].email = "b@x"
        /\ users[sessions[a].user].is_superuser

\* ------------------------------------------------------------------------
\* C27: round trip of the token codec.  The claims of a token just issued
\* for principal p, type t and lifetime ttl, whatever additional claims were
\* handed over, have sub = p, type = t and exp = issue time + ttl, and the
\* jti the codec generated: additional claims replace none of them.
\* ------------------------------------------------------------------------
C27_IssueStep ==
    (last' # last /\ last'.op \in {"create_token_payload", "create_access_token"}) =>
        \A tok \in last'.issued :
            /\ tok.sub = last'.user
            /\ tok.type = last'.detail
            /\ tok.exp = now + last'.count
            /\ tok.jti = nextJti

C27_RoundTrip == [][C27_IssueStep]_vars

\* ------------------------------------------------------------------------
\* C28: a token whose exp is not in the future at the time it is presented
\* is never valid: the guard answers 401 and is_token_valid is false.
\* ------------------------------------------------------------------------
C28_ValidateStep ==
    (last' # last /\ last'.op = "validate" /\ last'.tok.exp <= now) =>
        /\ last'.status = 401
        /\ ~last'.value

C28_ExpiredNeverValid == [][C28_ValidateStep]_vars

\* ------------------------------------------------------------------------
\* C29: the user logout revokes user access tokens only: the jti of a token
\* of type "client" or "refresh" is never put on the blacklist by a logout
\* call, and no logout call presenting such a token succeeds.
\* ------------------------------------------------------------------------
C29_LogoutOnlyUserTokens ==
    /\ \A t \in tokens : t.type \in {"client", "refresh"} => ~is_blacklisted(t.jti)
    /\ (last.op = "logout" /\ last.tok.type \in {"client", "refresh"}) => last.status # 200

====
